---- MODULE Spec2Model ----
(***************************************************************************)
(* A model of rlox-vm: the bytecode Chunk (src/src/chunk.rs) and the stack *)
(* virtual machine (src/src/vm.rs).                                        *)
(*                                                                         *)
(* A behaviour is one process: a caller builds a Chunk through its public  *)
(* API (write_byte, add_constant, write_constant), hands it to Vm::new and *)
(* calls run(), which is modelled one loop iteration per step.             *)
(***************************************************************************)
EXTENDS Integers, Sequences, FiniteSets, TLC

VARIABLES
    overflow_checks,   \* build: integer overflow panics (dev profile) or wraps (release)
    debug_assertions,  \* build: cfg(debug_assertions), the trace in Vm::run
    pc,                \* "build" | "shown" | "run" | "done"
    code,              \* Chunk.code: Vec<u8>
    lines,             \* Chunk.lines: Vec<Rle<usize>>, records [num, value]
    constants,         \* Chunk.constants: Vec<Value>, as [n, fill, tail]: n entries
                       \* equal to fill, then the entries of tail (see PoolAt)
    result,            \* outcome of the last call: "none", "Ok", an error name, "panic"
    last,              \* history: the last call on the Chunk and the sizes before the
                       \* last builder call
    written,           \* history: the line passed for each byte of code
    wc_log,            \* history: [off, value] of every write_constant that returned Ok
    calls,             \* history: number of builder calls, by operation
    listing,           \* history: what the last disassemble call printed, one
                       \* entry [off, res, val, bar] per disassemble_instruction
    ip,                \* Vm.ip, as the offset of the pointer from chunk.code[0]
    stack,             \* Vm.stack: [Value; STACK_MAX]
    stack_top,         \* Vm.stack_top, as the offset (in slots) of the pointer from
                       \* the slot 0 it was taken from
    relocated,         \* the Vm lives at another address than the one stack_top was
                       \* taken from: stack_top points outside Vm.stack
    emitted,           \* the values run() printed for Return
    message,           \* the message of the InterpretError returned, <<text, number>>
    fetched            \* history: [off, byte] of the last opcode fetch of run()

chunk_vars == <<code, lines, constants>>
hist_vars == <<last, written, wc_log, calls, listing>>
build_vars == <<overflow_checks, debug_assertions>>
vm_vars == <<ip, stack, stack_top, relocated, emitted, message, fetched>>
vars == <<overflow_checks, debug_assertions, pc, code, lines, constants,
          result, last, written, wc_log, calls, listing,
          ip, stack, stack_top, relocated, emitted, message, fetched>>

-----------------------------------------------------------------------------
(* Program constants *)

U8_MAX == 255
U8_MOD == 256
U16_MOD == 65536

OP_CONSTANT == 0
OP_CONSTANT_LONG == 1
OP_ADD == 2
OP_SUBTRACT == 3
OP_MULTIPLY == 4
OP_DIVIDE == 5
OP_NEGATE == 6
OP_RETURN == 7

STACK_MAX == 256

-----------------------------------------------------------------------------
(* Bounds and input sets *)

\* free builder calls explored after the starting chunk
MaxOps == 3

\* line numbers passed by the caller
Lines == {1, 2}

\* Values are rationals <<numerator, denominator>> in lowest terms,
\* denominator > 0; the three constants of main.rs are 6/5, 17/5 and 28/5.
Values == {<<6, 5>>, <<17, 5>>}

\* raw bytes passed to write_byte while building: Return and a byte that is no opcode
BuildBytes == {7, 9}

\* free builder calls before a run, and the bytes and lines passed by them:
\* the eight opcodes and a byte that is none
MaxProgOps == 2
ProgramBytes == (0..7) \cup {9}
ProgramLines == {1}

\* what a read outside code, and a read outside Vm.stack, may yield
GarbageBytes == {0, 6, 7, 9}
Garbage == {<<0, 1>>, <<9, 1>>}

\* bytes past the end of code that run() is followed through
MaxOverrun == 2

\* free builder calls before a chunk is disassembled
MaxDisOps == 2

-----------------------------------------------------------------------------
(* Chunk *)

\* Rle::new
RleNew(value) == [num |-> 1, value |-> value]

\* Rle::increment: `self.num += 1` on a u8. At 255 the addition overflows:
\* with overflow checks the call panics, without them the counter wraps to 0.
RleIncrement(rle, checks) ==
    IF rle.num + 1 > U8_MAX
    THEN IF checks
         THEN [panic |-> TRUE, rle |-> rle]
         ELSE [panic |-> FALSE, rle |-> [rle EXCEPT !.num = (rle.num + 1) % U8_MOD]]
    ELSE [panic |-> FALSE, rle |-> [rle EXCEPT !.num = rle.num + 1]]

\* Chunk::write_byte on the chunk record c. The byte is pushed before the
\* line map is touched, so a panicking call leaves the byte in code.
write_byte(c, byte, line, checks) ==
    LET pushed == [c EXCEPT !.code = Append(c.code, byte)]
        n == Len(c.lines)
    IN  IF n > 0 /\ c.lines[n].value = line
        THEN LET inc == RleIncrement(c.lines[n], checks)
             IN  [panic |-> inc.panic,
                  chunk |-> [pushed EXCEPT !.lines[n] = inc.rle]]
        ELSE [panic |-> FALSE,
              chunk |-> [pushed EXCEPT !.lines = Append(c.lines, RleNew(line))]]

\* The constant pool is a Vec<Value>. A pool of 65,536 entries is kept small
\* in the state by writing a leading block of equal entries as a count:
\* [n, fill, tail] is the vector of n entries `fill` followed by `tail`.
EmptyPool == [n |-> 0, fill |-> <<0, 1>>, tail |-> <<>>]

\* constants.len()
PoolLen(pool) == pool.n + Len(pool.tail)

\* constants[idx], idx 0-based and < PoolLen(pool)
PoolAt(pool, idx) == IF idx < pool.n THEN pool.fill ELSE pool.tail[idx - pool.n + 1]

\* constants.push(value)
PoolPush(pool, value) == [pool EXCEPT !.tail = Append(@, value)]

\* Chunk::add_constant: the new pool and the (0-based) index returned
add_constant(c, value) ==
    LET pool == PoolPush(c.constants, value)
    IN  [chunk |-> [c EXCEPT !.constants = pool], idx |-> PoolLen(pool) - 1]

\* mutant: the two index bytes in big-endian order
to_be_bytes(n) == <<n \div U8_MOD, n % U8_MOD>>

\* u16::to_le_bytes
to_le_bytes(n) == <<n % U8_MOD, n \div U8_MOD>>

\* u16::from_le_bytes
from_le_bytes(b1, b2) == b1 + U8_MOD * b2

\* Chunk::write_constant_short
write_constant_short(c, value, line, checks) ==
    LET a == add_constant(c, value)
        w1 == write_byte(a.chunk, OP_CONSTANT, line, checks)
    IN  IF w1.panic THEN [res |-> "panic", chunk |-> w1.chunk]
        ELSE IF a.idx > U8_MAX  \* usize -> u8 try_into
        THEN [res |-> "TooManyConstantsShort", chunk |-> w1.chunk]
        ELSE LET w2 == write_byte(w1.chunk, a.idx, line, checks)
             IN  IF w2.panic THEN [res |-> "panic", chunk |-> w2.chunk]
                 ELSE [res |-> "Ok", chunk |-> w2.chunk]

\* Chunk::write_constant_long
write_constant_long(c, value, line, checks) ==
    LET a == add_constant(c, value)
        w1 == write_byte(a.chunk, OP_CONSTANT_LONG, line, checks)
    IN  IF w1.panic THEN [res |-> "panic", chunk |-> w1.chunk]
        ELSE IF a.idx >= U16_MOD  \* usize -> u16 try_into
        THEN [res |-> "TooManyConstantsLong", chunk |-> w1.chunk]
        ELSE LET b == to_le_bytes(a.idx)
                 w2 == write_byte(w1.chunk, b[1], line, checks)
             IN  IF w2.panic THEN [res |-> "panic", chunk |-> w2.chunk]
                 ELSE LET w3 == write_byte(w2.chunk, b[2], line, checks)
                      IN  IF w3.panic THEN [res |-> "panic", chunk |-> w3.chunk]
                          ELSE [res |-> "Ok", chunk |-> w3.chunk]

\* mutant: the short form while the pool holds at most 255 entries
write_constant_le(c, value, line, checks) ==
    IF PoolLen(c.constants) <= U8_MAX
    THEN write_constant_short(c, value, line, checks)
    ELSE write_constant_long(c, value, line, checks)

\* Chunk::write_constant
write_constant(c, value, line, checks) ==
    IF PoolLen(c.constants) < U8_MAX
    THEN write_constant_short(c, value, line, checks)
    ELSE write_constant_long(c, value, line, checks)

\* Chunk::get_line: the scan over the runs, from run i with `start` bytes before it
RECURSIVE get_line_from(_, _, _, _)
get_line_from(ls, offset, i, start) ==
    IF i > Len(ls) THEN [ok |-> FALSE, line |-> 0]
    ELSE IF start <= offset /\ offset < start + ls[i].num
    THEN [ok |-> TRUE, line |-> ls[i].value]
    ELSE get_line_from(ls, offset, i + 1, start + ls[i].num)

get_line(ls, offset) == get_line_from(ls, offset, 1, 0)

\* Operand bytes that follow an opcode byte, as the disassembler skips them
\* (simple_instruction, constant_instruction, constant_long_instruction);
\* -1 for a byte OpCode::from_u8 does not recognise.
OperandWidth(byte) ==
    IF byte = OP_CONSTANT THEN 1
    ELSE IF byte = OP_CONSTANT_LONG THEN 2
    ELSE IF byte \in OP_ADD..OP_RETURN THEN 0
    ELSE -1

\* Chunk::new
EmptyChunk == [code |-> <<>>, lines |-> <<>>, constants |-> EmptyPool]

-----------------------------------------------------------------------------
(* Starting chunks: each is the result of public calls on Chunk::new() *)

\* n calls write_byte(byte, line), 1 <= n <= 255: one run of n bytes
BytesWritten(n, byte, line) ==
    [code |-> [i \in 1..n |-> byte],
     lines |-> <<[num |-> n, value |-> line]>>,
     constants |-> EmptyPool]

\* n calls add_constant(value)
ConstantsAdded(n, value) ==
    [EmptyChunk EXCEPT !.constants = [n |-> n, fill |-> value, tail |-> <<>>]]

\* the line passed by the k-th of a series of write_constant calls: it changes
\* every 100 calls, so that no run of the line map reaches 256 bytes
LineOfCall(k) == 1 + (((k - 1) \div 100) % 2)

\* n calls write_constant(value, LineOfCall(k)), k = 1..n, n <= 255:
\* n instructions [Constant, k - 1], one run per batch of calls
ConstantsWritten(n, value) ==
    [code |-> [i \in 1..(2 * n) |-> IF i % 2 = 1 THEN OP_CONSTANT ELSE (i \div 2) - 1],
     lines |-> [j \in 1..((n + 99) \div 100) |->
                  [num |-> 2 * (IF n - 100 * (j - 1) < 100 THEN n - 100 * (j - 1) ELSE 100),
                   value |-> LineOfCall(100 * (j - 1) + 1)]],
     constants |-> [n |-> n, fill |-> value, tail |-> <<>>]]

NoMessage == <<"", 0>>
NoFetch == [off |-> -1, byte |-> 0]
NoCall == [op |-> "none", value |-> <<0, 1>>, line |-> 0, pool |-> 0, len |-> 0]

\* The state after the calls that built c; w[i] is the line passed with byte i.
Start(c, w, nwb, nac, nwc) ==
    /\ code = c.code
    /\ lines = c.lines
    /\ constants = c.constants
    /\ pc = "build"
    /\ result = "none"
    /\ last = NoCall
    /\ written = w
    /\ wc_log = <<>>
    /\ calls = [write_byte |-> nwb, add_constant |-> nac, write_constant |-> nwc, free |-> 0]
    /\ listing = <<>>
    /\ ip = 0
    /\ stack = [i \in 1..STACK_MAX |-> <<0, 1>>]
    /\ stack_top = 0
    /\ relocated = FALSE
    /\ emitted = <<>>
    /\ message = NoMessage
    /\ fetched = NoFetch


-----------------------------------------------------------------------------
(* Builder actions *)

Commit(c, res, op, value, line) ==
    /\ code' = c.code
    /\ lines' = c.lines
    /\ constants' = c.constants
    /\ result' = res
    /\ pc' = IF res = "panic" THEN "done" ELSE pc
    /\ last' = [op |-> op, value |-> value, line |-> line,
                pool |-> PoolLen(constants), len |-> Len(code)]
    /\ written' = written \o [i \in 1..(Len(c.code) - Len(code)) |-> line]
    /\ wc_log' = IF op = "write_constant" /\ res = "Ok"
                 THEN Append(wc_log, [off |-> Len(code), value |-> value])
                 ELSE wc_log
    /\ calls' = [calls EXCEPT ![op] = @ + 1, !.free = @ + 1]
    /\ UNCHANGED <<build_vars, vm_vars, listing>>

Cur == [code |-> code, lines |-> lines, constants |-> constants]

\* a call write_byte(byte, line) with byte in B and line in L
WriteByte(B, L, max) ==
    /\ pc = "build"
    /\ calls.free < max
    /\ \E byte \in B, line \in L :
          LET w == write_byte(Cur, byte, line, overflow_checks)
          IN  Commit(w.chunk, IF w.panic THEN "panic" ELSE "Ok", "write_byte", <<0, 1>>, line)

AddConstant(max) ==
    /\ pc = "build"
    /\ calls.free < max
    /\ \E value \in Values :
          Commit(add_constant(Cur, value).chunk, "Ok", "add_constant", value, 0)

WriteConstant(L, max) ==
    /\ pc = "build"
    /\ calls.free < max
    /\ \E value \in Values, line \in L :
          LET w == write_constant(Cur, value, line, overflow_checks)
          IN  Commit(w.chunk, w.res, "write_constant", value, line)

\* The builder alone: the trace flag is read only by Vm::run.
InitChunk ==
    /\ overflow_checks \in BOOLEAN
    /\ debug_assertions = FALSE
    /\ \/ Start(EmptyChunk, <<>>, 0, 0, 0)
       \/ Start(BytesWritten(254, 7, 1), [i \in 1..254 |-> 1], 254, 0, 0)
       \/ Start(ConstantsAdded(254, <<6, 5>>), <<>>, 0, 254, 0)
       \/ Start(ConstantsWritten(254, <<6, 5>>),
                [i \in 1..508 |-> LineOfCall((i + 1) \div 2)], 0, 0, 254)
       \/ Start(ConstantsAdded(65535, <<6, 5>>), <<>>, 0, 65535, 0)

NextChunk ==
    \/ WriteByte(BuildBytes, Lines, MaxOps)
    \/ AddConstant(MaxOps)
    \/ WriteConstant(Lines, MaxOps)

SpecChunk == InitChunk /\ [][NextChunk]_vars

-----------------------------------------------------------------------------
(* Value: a double. The model computes with exact rationals <<n, d>>, d >= 0,
   in lowest terms; d = 0 stands for the results of a division by zero,
   <<1, 0>> = +inf, <<-1, 0>> = -inf, <<0, 0>> = NaN. Rounding and the sign of
   zero are not modelled. *)

Abs(x) == IF x < 0 THEN -x ELSE x
Sgn(x) == IF x < 0 THEN -1 ELSE IF x > 0 THEN 1 ELSE 0

RECURSIVE Gcd(_, _)
Gcd(a, b) == IF b = 0 THEN a ELSE Gcd(b, a % b)

Norm(n, d) ==
    IF d = 0 THEN <<Sgn(n), 0>>
    ELSE LET g == Gcd(Abs(n), d) IN <<n \div g, d \div g>>

\* mutant: the value is left as it is
VNeg_same(a) == a

\* -a
VNeg(a) == <<-a[1], a[2]>>

\* a + b
VAdd(a, b) ==
    IF a[2] = 0 /\ b[2] = 0 THEN (IF a = b THEN a ELSE <<0, 0>>)
    ELSE Norm(a[1] * b[2] + b[1] * a[2], a[2] * b[2])

\* a - b
VSub(a, b) == VAdd(a, VNeg(b))

\* a * b
VMul(a, b) == Norm(a[1] * b[1], a[2] * b[2])

\* a / b
VDiv(a, b) == Norm((IF b[1] < 0 THEN -1 ELSE 1) * a[1] * b[2], a[2] * Abs(b[1]))

-----------------------------------------------------------------------------
(* Decoding and the disassembler *)

\* mutant: a byte that is no opcode decodes as Return
from_u8_lax(value) == IF value \in OP_CONSTANT..OP_RETURN THEN value ELSE OP_RETURN

\* OpCode::from_u8: the opcode, or -1 for None
from_u8(value) == IF value \in OP_CONSTANT..OP_RETURN THEN value ELSE -1

\* Chunk::disassemble_instruction(offset) with constant_instruction,
\* constant_long_instruction and simple_instruction: res is "Ok" (val the
\* next offset), an error (val its argument) or "panic" (an index out of
\* bounds); bar tells whether the line column shows "   | ".
disassemble_instruction(c, offset) ==
    LET l == get_line(c.lines, offset)
        lp == get_line(c.lines, offset - 1)
        bar == offset > 0 /\ lp.ok /\ l.line = lp.line
        n == Len(c.code)
    IN  IF ~l.ok THEN [res |-> "ParseLineForOffset", val |-> offset, bar |-> FALSE]
        ELSE IF offset > 0 /\ ~lp.ok
        THEN [res |-> "ParseLineForOffset", val |-> offset - 1, bar |-> FALSE]
        ELSE IF offset >= n THEN [res |-> "panic", val |-> offset, bar |-> bar]
        ELSE LET instruction == from_u8(c.code[offset + 1])
             IN  IF instruction = -1
                 THEN [res |-> "ParseOpCode", val |-> c.code[offset + 1], bar |-> bar]
                 ELSE IF instruction = OP_CONSTANT
                 THEN IF offset + 1 >= n \/ c.code[offset + 2] >= PoolLen(c.constants)
                      THEN [res |-> "panic", val |-> offset, bar |-> bar]
                      ELSE [res |-> "Ok", val |-> offset + 2, bar |-> bar]
                 ELSE IF instruction = OP_CONSTANT_LONG
                 THEN IF \/ offset + 2 >= n
                         \/ from_le_bytes(c.code[offset + 2], c.code[offset + 3])
                               >= PoolLen(c.constants)
                      THEN [res |-> "panic", val |-> offset, bar |-> bar]
                      ELSE [res |-> "Ok", val |-> offset + 3, bar |-> bar]
                 ELSE [res |-> "Ok", val |-> offset + 1, bar |-> bar]

\* Chunk::disassemble, the loop from `offset`: the entries printed; the walk
\* ends at len(code) or with the first entry that is not Ok
RECURSIVE disassemble_from(_, _)
disassemble_from(c, offset) ==
    IF offset >= Len(c.code) THEN <<>>
    ELSE LET d == disassemble_instruction(c, offset)
             entry == [off |-> offset, res |-> d.res, val |-> d.val, bar |-> d.bar]
         IN  IF d.res = "Ok" THEN <<entry>> \o disassemble_from(c, d.val)
             ELSE <<entry>>

\* Chunk::disassemble
disassemble(c) == disassemble_from(c, 0)

\* what a call that printed the entries l returns
Returned(l) == IF l = <<>> THEN "Ok" ELSE l[Len(l)].res

\* a call chunk.disassemble(name); the caller builds no further
Disassemble ==
    /\ pc = "build"
    /\ listing' = disassemble(Cur)
    /\ result' = Returned(listing')
    /\ pc' = "shown"
    /\ last' = [last EXCEPT !.op = "disassemble"]
    /\ UNCHANGED <<build_vars, chunk_vars, vm_vars, written, wc_log, calls>>

\* a call chunk.disassemble_instruction(offset) at an offset inside code
DisassembleInstruction ==
    /\ pc = "build"
    /\ \E offset \in 0..(Len(code) - 1) :
          LET d == disassemble_instruction(Cur, offset)
          IN  listing' = <<[off |-> offset, res |-> d.res, val |-> d.val, bar |-> d.bar]>>
    /\ result' = Returned(listing')
    /\ pc' = "shown"
    /\ last' = [last EXCEPT !.op = "disassemble_instruction"]
    /\ UNCHANGED <<build_vars, chunk_vars, vm_vars, written, wc_log, calls>>

\* add_constant(1.2); write_byte(Constant, 1): the operand is yet to be written
OpenConstant ==
    [code |-> <<OP_CONSTANT>>,
     lines |-> <<[num |-> 1, value |-> 1]>>,
     constants |-> [n |-> 0, fill |-> <<0, 1>>, tail |-> <<<<6, 5>>>>]]

-----------------------------------------------------------------------------
(* Vm *)

\* Vm::new(chunk). `vm.chunk.code[0]` panics on an empty chunk. ip points
\* into the heap buffer of chunk.code, which does not move. stack_top is the
\* address of vm.stack[0] of the local `vm`, which is then returned by
\* value: whether the caller's Vm is that same storage is up to the build,
\* and if it is not, stack_top dangles.
VmNew ==
    /\ pc = "build"
    /\ IF Len(code) = 0
       THEN /\ pc' = "done"
            /\ result' = "panic"
            /\ UNCHANGED vm_vars
       ELSE /\ pc' = "run"
            /\ result' = "none"
            /\ ip' = 0
            /\ stack' = [i \in 1..STACK_MAX |-> <<0, 1>>]
            /\ stack_top' = 0
            /\ relocated' \in BOOLEAN
            /\ UNCHANGED <<emitted, message, fetched>>
    /\ UNCHANGED <<build_vars, chunk_vars, hist_vars>>

\* Vm::reset_stack, called between Vm::new and run(): stack_top is taken anew
\* from the Vm where it now lives
ResetStack ==
    /\ pc = "run"
    /\ fetched = NoFetch
    /\ relocated
    /\ stack_top' = 0
    /\ relocated' = FALSE
    /\ UNCHANGED <<build_vars, chunk_vars, hist_vars, pc, result,
                   ip, stack, emitted, message, fetched>>

\* slot i (0-based from the slot stack_top was taken from) is a slot of Vm.stack
InArray(i) == ~relocated /\ 0 <= i /\ i < STACK_MAX

\* `*ptr` for a slot pointer: outside Vm.stack the read is undefined
SlotReads(i) == IF InArray(i) THEN {stack[i + 1]} ELSE Garbage

\* `*ptr = v`: outside Vm.stack the write does not reach the array
SlotWrite(i, v) == IF InArray(i) THEN [stack EXCEPT ![i + 1] = v] ELSE stack

\* chunk.constants after `*ptr = v`: Vm.stack lies between the other fields
\* of the Vm, so a write just outside the array may land on the Vec header
\* of a field of the chunk; the model follows the length of the pool being
\* overwritten with zero. A dangling stack_top points outside the Vm.
Overwrites(i) ==
    IF InArray(i) \/ relocated THEN {constants} ELSE {constants, EmptyPool}

\* `*self.ip` in read_byte: past the end of code the read is undefined
CodeReads(off) == IF off < Len(code) THEN {code[off + 1]} ELSE GarbageBytes

\* The cfg(debug_assertions) block of run(): "go", or the way it ends the run.
\* The stack dump slices self.stack[0..stack_top_offset], which panics
\* beyond 256 (a negative offset is a huge usize); with a dangling stack_top
\* the offset is whatever the two addresses give.
TraceOutcomes ==
    IF ~debug_assertions THEN {[kind |-> "go", msg |-> NoMessage]}
    ELSE LET d == disassemble_instruction(Cur, ip)
             after == IF d.res = "Ok" THEN [kind |-> "go", msg |-> NoMessage]
                      ELSE IF d.res = "panic" THEN [kind |-> "panic", msg |-> NoMessage]
                      ELSE IF d.res = "ParseOpCode"
                      THEN [kind |-> "Runtime", msg |-> <<"Unrecognized OpCode", d.val>>]
                      ELSE [kind |-> "Runtime",
                            msg |-> <<"Offset not associated with any line", d.val>>]
             slice_panics == [kind |-> "panic", msg |-> NoMessage]
         IN  IF relocated THEN {slice_panics, after}
             ELSE IF stack_top < 0 \/ stack_top > STACK_MAX THEN {slice_panics}
             ELSE {after}

RunGuard == pc = "run" /\ ip < Len(code) + MaxOverrun

Running == UNCHANGED <<build_vars, code, lines, hist_vars, pc, result, message>>

Halt(res, msg) ==
    /\ pc' = "done"
    /\ result' = res
    /\ message' = msg
    /\ UNCHANGED <<build_vars, chunk_vars, hist_vars>>

\* the trace ends the run before the fetch
TraceHalt ==
    /\ RunGuard
    /\ \E t \in TraceOutcomes :
          /\ t.kind # "go"
          /\ Halt(t.kind, t.msg)
    /\ UNCHANGED <<ip, stack, stack_top, relocated, emitted, fetched>>

\* the trace lets the iteration go on, read_byte yields a byte and
\* OpCode::from_u8 decodes it as `instruction` (-1 for None)
Fetch(instruction) ==
    /\ RunGuard
    /\ \E t \in TraceOutcomes : t.kind = "go"
    /\ \E byte \in CodeReads(ip) :
          /\ from_u8(byte) = instruction
          /\ fetched' = [off |-> ip, byte |-> byte]

\* Vm::push
Push(value) ==
    /\ stack' = SlotWrite(stack_top, value)
    /\ constants' \in Overwrites(stack_top)
    /\ stack_top' = stack_top + 1

\* Some(Constant): read_constant, push. constants[idx] is a checked index.
ExecConstant ==
    /\ Fetch(OP_CONSTANT)
    /\ \E idx \in CodeReads(ip + 1) :
          /\ ip' = ip + 2
          /\ IF idx < PoolLen(constants)
             THEN Push(PoolAt(constants, idx)) /\ Running
             ELSE Halt("panic", NoMessage) /\ UNCHANGED <<stack, stack_top>>
    /\ UNCHANGED <<relocated, emitted>>

\* Some(ConstantLong): read_constant_long, push
ExecConstantLong ==
    /\ Fetch(OP_CONSTANT_LONG)
    /\ \E b1 \in CodeReads(ip + 1), b2 \in CodeReads(ip + 2) :
          LET idx == from_le_bytes(b1, b2)
          IN  /\ ip' = ip + 3
              /\ IF idx < PoolLen(constants)
                 THEN Push(PoolAt(constants, idx)) /\ Running
                 ELSE Halt("panic", NoMessage) /\ UNCHANGED <<stack, stack_top>>
    /\ UNCHANGED <<relocated, emitted>>

\* Some(Negate): the slot below stack_top is negated in place
ExecNegate ==
    /\ Fetch(OP_NEGATE)
    /\ ip' = ip + 1
    /\ \E v \in SlotReads(stack_top - 1) :
          stack' = SlotWrite(stack_top - 1, VNeg(v))
    /\ constants' \in Overwrites(stack_top - 1)
    /\ Running
    /\ UNCHANGED <<stack_top, relocated, emitted>>

\* `$op` of binary_op!
Apply(op, a, b) ==
    IF op = OP_ADD THEN VAdd(a, b)
    ELSE IF op = OP_SUBTRACT THEN VSub(a, b)
    ELSE IF op = OP_MULTIPLY THEN VMul(a, b)
    ELSE VDiv(a, b)

\* binary_op!: b = pop(), then the slot below the new stack_top is combined
\* with b in place
BinaryOp(op) ==
    \E b \in SlotReads(stack_top - 1), a \in SlotReads(stack_top - 2) :
        /\ stack' = SlotWrite(stack_top - 2, Apply(op, a, b))
        /\ constants' \in Overwrites(stack_top - 2)
        /\ stack_top' = stack_top - 1

\* Some(Add), Some(Subtract), Some(Multiply), Some(Divide)
ExecBinary ==
    \E op \in {OP_ADD, OP_SUBTRACT, OP_MULTIPLY, OP_DIVIDE} :
        /\ Fetch(op)
        /\ ip' = ip + 1
        /\ BinaryOp(op)
        /\ Running
        /\ UNCHANGED <<relocated, emitted>>

\* Some(Return): println!("{}", self.pop()); return Ok(())
ExecReturn ==
    /\ Fetch(OP_RETURN)
    /\ ip' = ip + 1
    /\ \E v \in SlotReads(stack_top - 1) :
          emitted' = Append(emitted, v)
    /\ stack_top' = stack_top - 1
    /\ Halt("Ok", NoMessage)
    /\ UNCHANGED <<stack, relocated>>

\* None: Err(Runtime("Unsupported opcode: `byte`"))
ExecUnsupported ==
    /\ Fetch(-1)
    /\ ip' = ip + 1
    /\ Halt("Runtime", <<"Unsupported opcode", fetched'.byte>>)
    /\ UNCHANGED <<stack, stack_top, relocated, emitted>>

\* How the iteration of run() at ip ends when the trace is compiled out or
\* lets it pass: "Ok" or "Runtime" (returned), "panic", or "go" (the loop
\* goes on), for every byte the reads may yield.
IterationOutcomes ==
    UNION { LET instruction == from_u8(byte)
            IN  IF instruction = -1 THEN {"Runtime"}
                ELSE IF instruction = OP_RETURN THEN {"Ok"}
                ELSE IF instruction = OP_CONSTANT
                THEN {IF idx < PoolLen(constants) THEN "go" ELSE "panic" :
                        idx \in CodeReads(ip + 1)}
                ELSE IF instruction = OP_CONSTANT_LONG
                THEN {IF from_le_bytes(b[1], b[2]) < PoolLen(constants) THEN "go" ELSE "panic" :
                        b \in CodeReads(ip + 1) \X CodeReads(ip + 2)}
                ELSE {"go"}
          : byte \in CodeReads(ip) }

RunStep ==
    \/ TraceHalt
    \/ ExecConstant
    \/ ExecConstantLong
    \/ ExecNegate
    \/ ExecBinary
    \/ ExecReturn
    \/ ExecUnsupported

\* main.rs, lines 12 to 19
MainChunk ==
    [code |-> <<OP_CONSTANT, 0, OP_CONSTANT, 1, OP_ADD, OP_CONSTANT, 2,
                OP_DIVIDE, OP_NEGATE, OP_RETURN>>,
     lines |-> <<[num |-> 10, value |-> 123]>>,
     constants |-> [n |-> 0, fill |-> <<0, 1>>, tail |-> <<<<6, 5>>, <<17, 5>>, <<28, 5>>>>]]

\* write_constant(1.2, 1); write_constant(3.4, 1)
TwoConstants ==
    [code |-> <<OP_CONSTANT, 0, OP_CONSTANT, 1>>,
     lines |-> <<[num |-> 4, value |-> 1]>>,
     constants |-> [n |-> 0, fill |-> <<0, 1>>, tail |-> <<<<6, 5>>, <<17, 5>>>>]]

\* The two cargo profiles: dev (overflow checks and the trace) and release.
Init ==
    /\ overflow_checks \in BOOLEAN
    /\ debug_assertions = overflow_checks
    /\ \/ Start(EmptyChunk, <<>>, 0, 0, 0)
       \/ Start(TwoConstants, [i \in 1..4 |-> 1], 0, 0, 2)
       \/ Start(MainChunk, [i \in 1..10 |-> 123], 4, 0, 3)
       \/ Start(ConstantsAdded(255, <<6, 5>>), <<>>, 0, 255, 0)

Next ==
    \/ WriteByte(ProgramBytes, ProgramLines, MaxProgOps)
    \/ AddConstant(MaxProgOps)
    \/ WriteConstant(ProgramLines, MaxProgOps)
    \/ VmNew
    \/ ResetStack
    \/ RunStep

Spec == Init /\ [][Next]_vars

\* run() is a loop of one thread: once entered, it takes its next iteration
SpecLive == Spec /\ WF_vars(RunStep)

\* The builder and the disassembler
InitDis ==
    /\ overflow_checks \in BOOLEAN
    /\ debug_assertions = overflow_checks
    /\ \/ Start(EmptyChunk, <<>>, 0, 0, 0)
       \/ Start(OpenConstant, <<1>>, 1, 1, 0)
       \/ Start(MainChunk, [i \in 1..10 |-> 123], 4, 0, 3)
       \/ Start(TwoConstants, [i \in 1..4 |-> 1], 0, 0, 2)

NextDis ==
    \/ WriteByte(ProgramBytes, Lines, MaxDisOps)
    \/ AddConstant(MaxDisOps)
    \/ WriteConstant(Lines, MaxDisOps)
    \/ Disassemble
    \/ DisassembleInstruction

SpecDis == InitDis /\ [][NextDis]_vars

-----------------------------------------------------------------------------
(* Claims about the Chunk *)

\* the bytes the last builder call appended to code
Emitted == SubSeq(code, last.len + 1, Len(code))

RECURSIVE SumRuns(_, _)
SumRuns(ls, i) == IF i > Len(ls) THEN 0 ELSE ls[i].num + SumRuns(ls, i + 1)

\* The first n bytes of cd are complete instructions, and every constant
\* operand among them is an index below npool.
RECURSIVE DecodesFrom(_, _, _, _)
DecodesFrom(cd, off, n, npool) ==
    IF off = n THEN TRUE
    ELSE LET w == OperandWidth(cd[off + 1])
         IN  /\ w >= 0
             /\ off + 1 + w <= n
             /\ w = 1 => cd[off + 2] < npool
             /\ w = 2 => from_le_bytes(cd[off + 2], cd[off + 3]) < npool
             /\ DecodesFrom(cd, off + 1 + w, n, npool)

\* C1: after any sequence of write_byte calls that returned, get_line(offset)
\* is Ok(line) for every offset below len(code), line being the line passed
\* with the byte at that offset (runs of more than 255 bytes included).
C1_LineAtReturnsWrittenLine ==
    (calls.add_constant = 0 /\ calls.write_constant = 0 /\ result # "panic") =>
        \A i \in 1..Len(code) :
            get_line(lines, i - 1) = [ok |-> TRUE, line |-> written[i]]

\* C2: in every state the builder reaches, the run lengths of the line map
\* sum to len(code) and no two adjacent runs carry the same line.
C2_RunsCoverCode ==
    result # "panic" =>
        /\ SumRuns(lines, 1) = Len(code)
        /\ \A j \in 1..(Len(lines) - 1) : lines[j].value # lines[j + 1].value

\* C3, as claimed: write_constant appends exactly [Constant, idx] when the
\* pool held fewer than 255 entries and exactly [ConstantLong, lo, hi]
\* (little-endian) otherwise, so that a chunk built only by write_constant
\* uses the long form from the 255th constant onward.
C3_Original ==
    (last.op = "write_constant" /\ result # "panic") =>
        /\ last.pool < 255 => Emitted = <<0, last.pool>>
        /\ last.pool >= 255 =>
              /\ Emitted = <<1, last.pool % 256, last.pool \div 256>>
              /\ last.pool \div 256 <= 255
        /\ (calls.write_byte = 0 /\ calls.add_constant = 0 /\ calls.write_constant >= 255)
              => Emitted[1] = 1

\* C3, amended: the opcode write_constant appends is Constant when the pool
\* held fewer than 255 entries and ConstantLong otherwise; a call that
\* returns Ok appended exactly [Constant, idx], respectively exactly
\* [ConstantLong, lo, hi] with idx = lo + 256 * hi; a call that returns
\* TooManyConstantsLong appended the opcode alone; and a chunk built only
\* by write_constant uses the long form from the 256th constant onward.
C3_EncodingByPoolSize ==
    last.op = "write_constant" =>
        /\ Len(Emitted) >= 1
        /\ Emitted[1] = IF last.pool < 255 THEN 0 ELSE 1
        /\ (result = "Ok" /\ last.pool < 255) => Emitted = <<0, last.pool>>
        /\ (result = "Ok" /\ last.pool >= 255) =>
              /\ Emitted = <<1, last.pool % 256, last.pool \div 256>>
              /\ last.pool \div 256 <= 255
        /\ result = "TooManyConstantsLong" => Emitted = <<1>>
        /\ (calls.write_byte = 0 /\ calls.add_constant = 0)
              => (Emitted[1] = 1 <=> calls.write_constant >= 256)

\* the 256th write_constant of a chunk built only by write_constant returned Ok
C3_Witness ==
    /\ last.op = "write_constant"
    /\ result = "Ok"
    /\ last.pool = 255
    /\ calls = [write_byte |-> 0, add_constant |-> 0, write_constant |-> 256, free |-> 2]

\* C4: the operand bytes of every write_constant that returned Ok decode
\* (1 byte, or 2 bytes little-endian) to an index whose pool entry is the
\* value written, in every later state of the chunk.
C4_OperandResolves ==
    \A k \in 1..Len(wc_log) :
        LET off == wc_log[k].off
            op == code[off + 1]
            idx == IF op = 0 THEN code[off + 2]
                   ELSE from_le_bytes(code[off + 2], code[off + 3])
        IN  /\ Len(code) >= off + 2
            /\ op \in {0, 1}
            /\ op = 1 => Len(code) >= off + 3
            /\ idx < PoolLen(constants)
            /\ PoolAt(constants, idx) = wc_log[k].value

\* a long-form write_constant of a value other than the pool's earlier
\* entries, followed by a later append to code
C4_Witness ==
    /\ Len(wc_log) >= 1
    /\ code[wc_log[1].off + 1] = 1
    /\ wc_log[1].value = <<17, 5>>
    /\ Len(code) > wc_log[1].off + 3
    /\ PoolLen(constants) > 256

\* C5: a write_constant that fails on a chunk of complete instructions
\* leaves a chunk of complete instructions whose constant operands all
\* index existing pool entries.
C5_FailureLeavesChunkConsistent ==
    (/\ last.op = "write_constant"
     /\ result \in {"TooManyConstantsShort", "TooManyConstantsLong"}
     /\ DecodesFrom(code, 0, last.len, last.pool))
        => DecodesFrom(code, 0, Len(code), PoolLen(constants))

\* C6: write_constant returns TooManyConstantsLong exactly when the pool
\* held 65536 or more entries, never TooManyConstantsShort, and Ok
\* whenever the new index fits the chosen operand width.
C6_ResultByIndexWidth ==
    last.op = "write_constant" =>
        /\ result = "TooManyConstantsLong" <=> last.pool >= 65536
        /\ result # "TooManyConstantsShort"
        /\ last.pool < 65536 => result = "Ok"

-----------------------------------------------------------------------------
(* Claims about the Vm *)

\* this step is an iteration of run() that fetched an opcode byte
Fetched == fetched' # fetched

\* the chunk begins with the program of main.rs over the constants x, y, z
IsMainProgram ==
    /\ Len(code) >= 10
    /\ SubSeq(code, 1, 10) = MainChunk.code
    /\ PoolLen(constants) >= 3

\* C7: a binary operation on a stack [.., a, b] of depth >= 2 leaves
\* [.., a <op> b]: the depth decreases by 1, the deeper value is the left
\* operand and the slots below are unchanged; and the program Constant x,
\* Constant y, Add, Constant z, Divide, Negate, Return emits exactly one
\* value, -((x + y) / z).
C7_BinaryOpAndMainProgram ==
    /\ [][(/\ Fetched
            /\ fetched'.byte \in 2..5
            /\ stack_top >= 2
            /\ InArray(stack_top - 1))
           => (/\ stack_top' = stack_top - 1
               /\ stack'[stack_top - 1] =
                     Apply(fetched'.byte, stack[stack_top - 1], stack[stack_top])
               /\ \A i \in 1..(stack_top - 2) : stack'[i] = stack[i])]_vars
    /\ []((pc = "done" /\ IsMainProgram /\ result # "none")
           => (/\ result = "Ok"
               /\ emitted = <<VNeg(VDiv(VAdd(PoolAt(constants, 0), PoolAt(constants, 1)),
                                         PoolAt(constants, 2)))>>))

\* C8: run() ends with Ok only through Return; the first Return executed
\* pops the top of the stack, emits exactly that value once and ends the
\* run at once, so that `Constant x, Return` yields x; no byte after that
\* Return is fetched and no other instruction emits anything.
C8_ReturnEndsRun ==
    /\ [][(Fetched /\ fetched'.byte = 7)
           => (/\ pc' = "done"
               /\ result' = "Ok"
               /\ stack_top' = stack_top - 1
               /\ Len(emitted') = Len(emitted) + 1
               /\ InArray(stack_top - 1) => emitted'[Len(emitted')] = stack[stack_top])]_vars
    /\ [][emitted' # emitted => (Fetched /\ fetched'.byte = 7)]_vars
    /\ [][pc # "done"]_vars
    /\ []((pc = "done" /\ result = "Ok" /\ fetched # NoFetch)
           => (fetched.byte = 7 /\ ip = fetched.off + 1 /\ Len(emitted) = 1))
    /\ []((/\ pc = "done"
            /\ result # "none"
            /\ Len(code) >= 3
            /\ code[1] = 0 /\ code[2] < PoolLen(constants) /\ code[3] = 7)
           => (result = "Ok" /\ emitted = <<PoolAt(constants, code[2])>>))

\* C9: when the byte run() fetches as an opcode is none of the 8 opcodes
\* (value >= 8), that step ends the run with a Runtime error naming the
\* byte, leaves the stack, the stack cursor and the output as they were,
\* and nothing is executed afterwards.
C9_UnsupportedOpcodeStops ==
    /\ [][(Fetched /\ fetched'.byte >= 8)
           => (/\ pc' = "done"
               /\ result' = "Runtime"
               /\ message' = <<"Unsupported opcode", fetched'.byte>>
               /\ stack' = stack
               /\ stack_top' = stack_top
               /\ emitted' = emitted)]_vars
    /\ [][pc = "done" => UNCHANGED <<ip, fetched, stack, stack_top, emitted, result>>]_vars

\* run() stopped on byte 9 at offset 4, after two values were pushed
C9_Witness ==
    /\ pc = "done"
    /\ result = "Runtime"
    /\ message = <<"Unsupported opcode", 9>>
    /\ fetched = [off |-> 4, byte |-> 9]
    /\ stack_top = 2
    /\ ~relocated

\* C10: the stack cursor stays within [0, 256] (pushes on a full stack and
\* pops on an empty one fail with a checked error instead).
C10_StackCursorInBounds ==
    pc \in {"run", "done"} => (0 <= stack_top /\ stack_top <= 256)

\* C11: every byte run() reads through the instruction cursor, the opcode
\* at fetched.off and the operands up to ip - 1, is at an offset in
\* [0, len(code)).
C11_CursorReadsInsideCode ==
    fetched # NoFetch => (0 <= fetched.off /\ ip <= Len(code))

\* C12: no operation panics: Vm::new and run() end with a value or an
\* error, and so do get_line and disassemble_instruction at every offset
\* below len(code), and disassemble, on every chunk the builder can reach.
C12_NoOperationPanics ==
    /\ result # "panic"
    /\ \A offset \in 0..(Len(code) - 1) :
          disassemble_instruction(Cur, offset).res # "panic"
    /\ Returned(disassemble(Cur)) # "panic"

-----------------------------------------------------------------------------
(* Claims about the disassembler *)

\* the start offsets of the instructions of cd from off on, by the operand
\* width of each opcode, up to the first byte that is no opcode
RECURSIVE InstructionStarts(_, _)
InstructionStarts(cd, off) ==
    IF off >= Len(cd) THEN <<>>
    ELSE LET w == OperandWidth(cd[off + 1])
         IN  IF w < 0 THEN <<off>>
             ELSE <<off>> \o InstructionStarts(cd, off + 1 + w)

\* what disassemble_instruction is to return at an entry of the listing
AdvancesByWidth(e) ==
    LET byte == code[e.off + 1]
    IN  IF OperandWidth(byte) < 0
        THEN e.res = "ParseOpCode" /\ e.val = byte
        ELSE e.res = "Ok" /\ e.val = e.off + 1 + OperandWidth(byte)

\* C13: every disassemble_instruction(offset) call returns offset + 1 + the
\* operand width of the opcode at offset (0, 1 for Constant, 2 for
\* ConstantLong), or ParseOpCode(byte) for a byte that is no opcode; and on
\* a chunk of complete instructions disassemble visits exactly the
\* instruction starts and ends at len(code).
C13_DisassemblerAdvance ==
    /\ \A k \in 1..Len(listing) : AdvancesByWidth(listing[k])
    /\ (last.op = "disassemble" /\ DecodesFrom(code, 0, Len(code), U16_MOD))
         => /\ result = "Ok"
            /\ [k \in 1..Len(listing) |-> listing[k].off] = InstructionStarts(code, 0)
            /\ listing # <<>> => listing[Len(listing)].val = Len(code)

\* C14: in a listing of disassemble, an instruction shows the `   |`
\* placeholder exactly when the line written with its opcode byte equals
\* the line written with the opcode byte of the instruction listed just
\* before it; the first instruction shows its line number.
C14_BarIffSameLineAsPreviousInstruction ==
    last.op = "disassemble" =>
        \A k \in 1..Len(listing) :
            listing[k].res # "ParseLineForOffset" =>
                (listing[k].bar <=>
                    (k > 1 /\ written[listing[k].off + 1] = written[listing[k - 1].off + 1]))

-----------------------------------------------------------------------------
(* Claims about single instructions *)

\* C15: executing Constant reads one operand byte, executing ConstantLong
\* two (index lo + 256 * hi); the operand bytes are bytes of code, the step
\* pushes constants[index]: the cursor of the stack grows by 1, the new top
\* slot holds that constant, the other slots are unchanged, and ip advances
\* by 2 and 3.
C15_ConstantPushes ==
    [][(Fetched /\ fetched'.byte \in {0, 1})
       => LET w == fetched'.byte + 1
              idx == IF w = 1 THEN code[ip + 2] ELSE code[ip + 2] + 256 * code[ip + 3]
          IN  /\ ip' = ip + 1 + w
              /\ ip + w < Len(code)
              /\ idx < PoolLen(constants)
              /\ stack_top' = stack_top + 1
              /\ InArray(stack_top)
                    => stack' = [stack EXCEPT ![stack_top + 1] = PoolAt(constants, idx)]]_vars

\* C16: executing Negate on a non-empty stack (the top is a slot of
\* Vm.stack) replaces the top value v by -v; the stack cursor, the slots
\* below, the chunk and the output are unchanged, the run goes on and ip
\* advances by 1.
C16_NegateInPlace ==
    [][(Fetched /\ fetched'.byte = 6 /\ stack_top >= 1 /\ InArray(stack_top - 1))
       => (/\ stack' = [stack EXCEPT ![stack_top] = <<-stack[stack_top][1], stack[stack_top][2]>>]
           /\ stack_top' = stack_top
           /\ ip' = ip + 1
           /\ pc' = "run"
           /\ UNCHANGED <<code, lines, constants, emitted, result>>)]_vars

\* Negate was executed at offset 4 on the stack [1.2, 3.4]
C16_Witness ==
    /\ pc = "run"
    /\ fetched = [off |-> 4, byte |-> 6]
    /\ ip = 5
    /\ ~relocated
    /\ stack_top = 2
    /\ stack[1] = <<6, 5>>
    /\ stack[2] = <<-17, 5>>

\* C17: from Vm::new on, no step changes chunk.code, chunk.constants or
\* chunk.lines.
C17_RunLeavesChunkAlone ==
    [][(pc \in {"run", "done"}) => UNCHANGED <<code, constants, lines>>]_vars

-----------------------------------------------------------------------------
(* Claims about the trace, the disassembler and the cursor *)

\* C18: the trace does not change how a run ends: whenever the trace ends
\* the run before the fetch (an error returned or a panic), the iteration
\* without the trace ends the run in the same way; it never ends a run that
\* would go on. Stated for a Vm that stays where Vm::new built it.
C18_TraceKeepsOutcome ==
    [][(pc = "run" /\ pc' = "done" /\ fetched' = fetched /\ ~relocated)
       => IterationOutcomes = {result'}]_vars

\* the offsets at which disassemble calls disassemble_instruction
DisassembledOffsets == [k \in 1..Len(disassemble(Cur)) |-> disassemble(Cur)[k].off]

\* C19: the offsets at which run() fetches an opcode are, in order, the
\* first offsets at which disassemble calls disassemble_instruction: the
\* first fetch is at the first of them, and every later fetch is at the one
\* that follows the offset of the fetch before.
C19_FetchesFollowDisassembler ==
    [][Fetched =>
         \E k \in 1..Len(DisassembledOffsets) :
            /\ DisassembledOffsets[k] = fetched'.off
            /\ IF fetched = NoFetch THEN k = 1
               ELSE k > 1 /\ DisassembledOffsets[k - 1] = fetched.off]_vars

\* From offset off on and with depth values on the stack, the instructions
\* of cd are complete and reach a Return, every Negate before it finding
\* one operand and every binary operation two.
RECURSIVE ReachesReturn(_, _, _)
ReachesReturn(cd, off, depth) ==
    IF off >= Len(cd) THEN FALSE
    ELSE LET byte == cd[off + 1]
             w == OperandWidth(byte)
         IN  IF w < 0 \/ off + 1 + w > Len(cd) THEN FALSE
             ELSE IF byte = 7 THEN TRUE
             ELSE IF byte = 6 THEN depth >= 1 /\ ReachesReturn(cd, off + 1, depth)
             ELSE IF w = 0 THEN depth >= 2 /\ ReachesReturn(cd, off + 1, depth - 1)
             ELSE ReachesReturn(cd, off + 1 + w, depth + 1)

\* C20: run() starts fetching at offset 0, every instruction executed is
\* fetched at ip and moves ip forward by 1, 2 or 3 (so that at most
\* len(code) instructions are executed inside code); and on a chunk of
\* complete instructions that reach a Return with enough operands, run()
\* eventually ends with Ok.
C20_CursorAdvancesAndRunEnds ==
    /\ [](fetched = NoFetch => ip = 0)
    /\ [][Fetched => (fetched'.off = ip /\ ip' - ip \in 1..3)]_vars
    /\ (pc = "run" /\ DecodesFrom(code, 0, Len(code), U16_MOD) /\ ReachesReturn(code, 0, 0))
          ~> (pc = "done" /\ result = "Ok")

====
